---- MODULE Spec2Model ----
(***************************************************************************)
(* Model of purch_proposal.py: association-rule mining with threshold      *)
(* escalation (generate_association_rules), the recommendation resolver    *)
(* (find_best_recommendation), input parsing (parse_input_items) and the   *)
(* interactive program (main).                                             *)
(*                                                                         *)
(* Numbers.  The program's supports and confidences are IEEE-754 doubles:  *)
(* support = count / rows, confidence = support(A u C) / support(A), each  *)
(* division rounded to nearest-even, and the thresholds are the doubles    *)
(* nearest to the decimal literals.  The model keeps that arithmetic: a    *)
(* double is a 53-bit mantissa held in two 26/27-bit limbs plus a binary   *)
(* exponent, and divisions are done by long division with rounding.        *)
(*                                                                         *)
(* Data.  The binary-encoded DataFrame is kept as a bag of rows: for each  *)
(* non-empty set of the tracked items the number of baskets that are       *)
(* exactly that set, plus `uniq`, the number of baskets that each hold one *)
(* item occurring in no other basket.  Row order is irrelevant to apriori. *)
(***************************************************************************)
EXTENDS Integers, Sequences, FiniteSets

\* ------------------------------------------------------------------ bounds
\* Most comma-separated fields in one typed line.
MaxFields == 4
\* Longest query handed directly to find_best_recommendation.
MaxQueryLen == 3

\* -------------------------------------------------------- items and strings
\* A string is a sequence of characters; an Item is a normalized label.
ItemA == <<"a">>
ItemB == <<"b">>
ItemC == <<"c">>
Items == {ItemA, ItemB, ItemC}
\* A label that is in no dataset of the model.
ItemX == <<"x">>

BasketTypes == (SUBSET Items) \ {{}}

\* ------------------------------------------------------------ configuration
\* Decimal literals, kept as exact fractions num/den.
MIN_SUPPORT_PRIMARY == [num |-> 5, den |-> 1000]
MIN_SUPPORT_SECONDARY == [num |-> 2, den |-> 1000]
MIN_SUPPORT_MINIMUM == [num |-> 1, den |-> 1000]
MIN_CONFIDENCE_PRIMARY == [num |-> 1, den |-> 100]
MIN_CONFIDENCE_SECONDARY == [num |-> 5, den |-> 1000]
MIN_CONFIDENCE_MINIMUM == [num |-> 1, den |-> 1000]

\* ------------------------------------------------------------------ doubles
\* A positive double: mantissa hi * 2^26 + lo in [2^52, 2^53), value
\* mantissa * 2^(e - 52).
LimbBase == 2^26
MantissaBits == 52 + 1

BigGeq(x, y) == x.hi > y.hi \/ (x.hi = y.hi /\ x.lo >= y.lo)
BigEq(x, y) == x.hi = y.hi /\ x.lo = y.lo
BigSub(x, y) ==
    IF x.lo >= y.lo
    THEN [hi |-> x.hi - y.hi, lo |-> x.lo - y.lo]
    ELSE [hi |-> x.hi - y.hi - 1, lo |-> x.lo + LimbBase - y.lo]
BigDbl(x) ==
    [hi |-> 2 * x.hi + ((2 * x.lo) \div LimbBase), lo |-> (2 * x.lo) % LimbBase]
BigDblPlus(x, b) ==
    [hi |-> 2 * x.hi + ((2 * x.lo) \div LimbBase), lo |-> ((2 * x.lo) % LimbBase) + b]
BigInc(x) ==
    IF x.lo + 1 = LimbBase THEN [hi |-> x.hi + 1, lo |-> 0]
    ELSE [hi |-> x.hi, lo |-> x.lo + 1]
BigOne == [hi |-> 0, lo |-> 1]

\* Round-to-nearest-even of a 53-bit quotient m with exponent e, given how
\* twice the remainder compares with the divisor.
RoundNearestEven(m, e, above, tie) ==
    IF above \/ (tie /\ m.lo % 2 = 1)
    THEN LET up == BigInc(m)
         IN  IF up.hi = 2 * LimbBase
             THEN [e |-> e + 1, hi |-> LimbBase, lo |-> 0]
             ELSE [e |-> e, hi |-> up.hi, lo |-> up.lo]
    ELSE [e |-> e, hi |-> m.hi, lo |-> m.lo]

\* One step of binary long division by d: one more bit of the quotient m,
\* remainder r < d.
DivStep(s, d) ==
    LET rr == BigDbl(s.r)
    IN  IF BigGeq(rr, d)
        THEN [m |-> BigDblPlus(s.m, 1), r |-> BigSub(rr, d)]
        ELSE [m |-> BigDblPlus(s.m, 0), r |-> rr]

\* k steps, split in halves to keep the evaluation shallow (the test on s.m
\* is never true: it makes the evaluator compute s before descending).
RECURSIVE DivSteps(_, _, _)
DivSteps(s, d, k) ==
    IF k = 0 \/ s.m.hi < 0 THEN s
    ELSE IF k = 1 THEN DivStep(s, d)
    ELSE DivSteps(DivSteps(s, d, k \div 2), d, k - (k \div 2))

\* The double nearest to (num / d) * 2^e, for d <= num < 2 * d.
RoundedQuotient(num, d, e) ==
    LET s == DivSteps([m |-> BigOne, r |-> BigSub(num, d)], d, MantissaBits - 1)
        rr == BigDbl(s.r)
    IN  RoundNearestEven(s.m, e, BigGeq(rr, d) /\ ~BigEq(rr, d), BigEq(rr, d))

RECURSIVE IntDivNorm(_, _, _)
IntDivNorm(c, n, e) ==
    IF c >= n THEN RoundedQuotient([hi |-> 0, lo |-> c], [hi |-> 0, lo |-> n], e)
    ELSE IntDivNorm(2 * c, n, e - 1)

\* The double nearest to c / n, for integers 1 <= c <= n < 2^25.
FloatOfRatio(c, n) == IntDivNorm(c, n, 0)

\* The double a decimal literal denotes.
FloatOfLiteral(t) == FloatOfRatio(t.num, t.den)

\* x / y on doubles.
FloatDiv(x, y) ==
    LET mx == [hi |-> x.hi, lo |-> x.lo]
        my == [hi |-> y.hi, lo |-> y.lo]
    IN  IF BigGeq(mx, my)
        THEN RoundedQuotient(mx, my, x.e - y.e)
        ELSE RoundedQuotient(BigDbl(mx), my, x.e - y.e - 1)

\* x >= y on doubles.
FloatGeq(x, y) ==
    x.e > y.e \/ (x.e = y.e /\ BigGeq([hi |-> x.hi, lo |-> x.lo], [hi |-> y.hi, lo |-> y.lo]))

\* ----------------------------------------------------------------- datasets
\* df: cnt[T] baskets are exactly the item set T; uniq baskets hold one item
\* each that no other basket holds.
MkData(a, b, ab, abc, u) ==
    [cnt |-> [T \in BasketTypes |->
                IF T = {ItemA} THEN a
                ELSE IF T = {ItemB} THEN b
                ELSE IF T = {ItemA, ItemB} THEN ab
                ELSE IF T = Items THEN abc
                ELSE 0],
     uniq |-> u]

\* Dense datasets: every basket is over the tracked items.
DenseData ==
    {MkData(a, b, ab, abc, 0) :
        a \in {0, 1, 99}, b \in {0, 3}, ab \in {0, 1, 2}, abc \in {0, 1}}
    \cup {MkData(199, 199, 2, 0, 0)}
\* Sparse datasets: hundreds of baskets of one unique item each.
SparseData ==
    {MkData(a, 0, ab, 0, u) : a \in {0, 1}, ab \in {0, 1}, u \in {300, 600, 1200}}
DataSets == DenseData \cup SparseData

NoData == MkData(0, 0, 0, 0, 0)

RECURSIVE SumCnt(_, _)
SumCnt(cnt, types) ==
    IF types = {} THEN 0
    ELSE LET T == CHOOSE U \in types : TRUE
         IN  cnt[T] + SumCnt(cnt, types \ {T})

\* len(df): the number of baskets.
RowCount(d) == SumCnt(d.cnt, BasketTypes) + d.uniq
\* The number of baskets that contain the item set S.
CountOf(d, S) == SumCnt(d.cnt, {T \in BasketTypes : S \subseteq T})
\* df.columns, as far as the tracked items go.
Vocabulary(d) == {i \in Items : CountOf(d, {i}) > 0}

\* ------------------------------------------------------------------- frames
\* The frequent itemsets: a row per tracked itemset, and the number of rows
\* that are singletons of unique items.
NoItemsets == [rows |-> {}, uniq |-> 0]
\* DataFrame.empty of a frequent-itemset frame.
ItemsetsEmpty(fi) == fi.rows = {} /\ fi.uniq = 0

\* pd.DataFrame(): no columns, no rows.
BareFrame == [columns |-> FALSE, rows |-> {}]
\* DataFrame.empty of a rule frame.
FrameEmpty(r) == r.rows = {}

\* mlxtend apriori(df, min_support, use_colnames=True): every itemset whose
\* support, count / rows as a double, is >= min_support.  A frame of no rows
\* yields no itemsets.
apriori(d, min_support) ==
    LET n == RowCount(d)
        thr == FloatOfLiteral(min_support)
    IN  IF n = 0 THEN NoItemsets
        ELSE [rows |-> {[itemsets |-> T, support |-> FloatOfRatio(CountOf(d, T), n)] :
                          T \in {U \in BasketTypes :
                                   /\ CountOf(d, U) > 0
                                   /\ FloatGeq(FloatOfRatio(CountOf(d, U), n), thr)}},
              uniq |-> IF d.uniq > 0 /\ FloatGeq(FloatOfRatio(1, n), thr)
                       THEN d.uniq ELSE 0]

\* The support column of the row of itemset S.
SupportOf(fi, S) == (CHOOSE k \in fi.rows : k.itemsets = S).support

\* Every split of a frequent itemset into antecedent and consequent.
RuleCandidates(fi) ==
    UNION {{[itemsets |-> k.itemsets, antecedents |-> A] :
              A \in (SUBSET k.itemsets) \ {{}, k.itemsets}} : k \in fi.rows}

\* The confidence column: support(A u C) / support(A), on doubles.
Confidence(fi, c) == FloatDiv(SupportOf(fi, c.itemsets), SupportOf(fi, c.antecedents))

\* The rules kept at a threshold: score >= min_threshold.
RulesFrame(fi, min_threshold) ==
    [columns |-> TRUE,
     rows |-> {[antecedents |-> c.antecedents,
                consequents |-> c.itemsets \ c.antecedents,
                confidence |-> Confidence(fi, c)] :
                 c \in {x \in RuleCandidates(fi) :
                          FloatGeq(Confidence(fi, x), FloatOfLiteral(min_threshold))}}]

\* Faulty variant: the call answers a frame of no rows with an empty frame instead of
\* raising.
association_rules_NoRaise(fi, min_threshold) ==
    [raised |-> FALSE, frame |-> RulesFrame(fi, min_threshold)]

\* mlxtend association_rules(df, metric="confidence", min_threshold): raises
\* ValueError on a frame of no rows, KeyError when the support of an
\* antecedent or consequent is not in the frame; otherwise keeps each rule
\* whose confidence is >= the threshold.
association_rules(fi, min_threshold) ==
    LET known == {k.itemsets : k \in fi.rows}
    IN  IF ItemsetsEmpty(fi) THEN [raised |-> TRUE, frame |-> BareFrame]
        ELSE IF \E c \in RuleCandidates(fi) :
                   c.antecedents \notin known \/ (c.itemsets \ c.antecedents) \notin known
        THEN [raised |-> TRUE, frame |-> BareFrame]
        ELSE [raised |-> FALSE, frame |-> RulesFrame(fi, min_threshold)]

\* ------------------------------------------------------------------ strings
\* str.lower() on the characters of the model.
LowerChar(c) ==
    CASE c = "A" -> "a"
      [] c = "B" -> "b"
      [] c = "Q" -> "q"
      [] OTHER -> c

RECURSIVE Lower(_)
Lower(s) == IF s = <<>> THEN <<>> ELSE <<LowerChar(Head(s))>> \o Lower(Tail(s))

RECURSIVE LStrip(_)
LStrip(s) == IF s # <<>> /\ Head(s) = " " THEN LStrip(Tail(s)) ELSE s
RECURSIVE RStrip(_)
RStrip(s) == IF s # <<>> /\ s[Len(s)] = " " THEN RStrip(SubSeq(s, 1, Len(s) - 1)) ELSE s
\* str.strip()
Strip(s) == RStrip(LStrip(s))

\* str.split(',')
RECURSIVE SplitComma(_)
SplitComma(s) ==
    IF \A i \in 1..Len(s) : s[i] # ","
    THEN <<s>>
    ELSE LET i == CHOOSE j \in 1..Len(s) : s[j] = "," /\ \A h \in 1..(j - 1) : s[h] # ","
         IN  <<SubSeq(s, 1, i - 1)>> \o SplitComma(SubSeq(s, i + 1, Len(s)))

\* [item.strip().lower() for item in fields]
RECURSIVE StripLowerAll(_)
StripLowerAll(fields) ==
    IF fields = <<>> THEN <<>>
    ELSE <<Lower(Strip(Head(fields)))>> \o StripLowerAll(Tail(fields))

IsNonEmpty(item) == item # <<>>

\* Faulty variant: the list is not cut to three items.
parse_input_items_NoCap(input_str) ==
    SelectSeq(StripLowerAll(SplitComma(input_str)), IsNonEmpty)

\* parse_input_items(input_str): the cleaned items, the first three at most.
parse_input_items(input_str) ==
    LET items == SelectSeq(StripLowerAll(SplitComma(input_str)), IsNonEmpty)
    IN  IF Len(items) > 3 THEN SubSeq(items, 1, 3) ELSE items

\* [item for item in input_items if item in available_items]
ValidItems(input_items, d) ==
    LET InDataset(item) == item \in Vocabulary(d)
    IN  SelectSeq(input_items, InDataset)

QuitWords == {<<"q", "u", "i", "t">>, <<"e", "x", "i", "t">>, <<"q">>}

\* The lines a user may type: up to MaxFields fields joined by commas.
RawFields == {<<>>, <<" ", "A">>, <<"b", " ">>, <<"Q">>}
RECURSIVE JoinComma(_)
JoinComma(fields) ==
    IF Len(fields) = 1 THEN fields[1]
    ELSE fields[1] \o <<",">> \o JoinComma(Tail(fields))
Lines == {JoinComma(fs) : fs \in UNION {[1..n -> RawFields] : n \in 1..MaxFields}}

\* The queries a direct caller may pass: any list of known or unknown items.
RECURSIVE SeqsUpTo(_, _)
SeqsUpTo(S, n) ==
    IF n = 0 THEN {<<>>}
    ELSE LET shorter == SeqsUpTo(S, n - 1)
         IN  shorter \cup {Append(q, x) : q \in shorter, x \in S}
Queries == SeqsUpTo(Items \cup {ItemX}, MaxQueryLen)

\* The values of min_confidence a direct caller may pass.
ConfidenceArgs ==
    {MIN_CONFIDENCE_PRIMARY, [num |-> 1, den |-> 2], [num |-> 2, den |-> 1000]}

\* ----------------------------------------------------------------- resolver
NoneRec == [tag |-> "None", item |-> <<>>]
ItemRec(i) == [tag |-> "item", item |-> i]
KeyErrorRec == [tag |-> "KeyError", item |-> <<>>]

Range(q) == {q[i] : i \in 1..Len(q)}

\* rules[rules['antecedents'] == s]
WithAntecedent(r, s) == {x \in r.rows : x.antecedents = s}

\* The rows idxmax of the confidence column may name: a row of the greatest
\* confidence (the first of them in the frame's row order).
BestRules(rows) == {x \in rows : \A y \in rows : FloatGeq(x.confidence, y.confidence)}

\* list(best_rule['consequents'])[0]: some member, by the set's iteration order.
FirstConsequents(rows) == {ItemRec(i) : i \in UNION {x.consequents : x \in BestRules(rows)}}

\* Faulty variant: the rules of the first item are tried before the exact match.
find_best_recommendation_FirstItemFirst(input_items, r) ==
    IF FrameEmpty(r) THEN {NoneRec}
    ELSE IF input_items # <<>> /\ WithAntecedent(r, {input_items[1]}) # {}
    THEN FirstConsequents(WithAntecedent(r, {input_items[1]}))
    ELSE IF WithAntecedent(r, Range(input_items)) # {}
    THEN FirstConsequents(WithAntecedent(r, Range(input_items)))
    ELSE {NoneRec}

\* Faulty variant: the fallback tries every item of the query, not the first alone.
find_best_recommendation_AnyItem(input_items, r) ==
    LET single == {x \in r.rows : \E i \in 1..Len(input_items) : x.antecedents = {input_items[i]}}
    IN  IF FrameEmpty(r) THEN {NoneRec}
        ELSE IF WithAntecedent(r, Range(input_items)) # {}
        THEN FirstConsequents(WithAntecedent(r, Range(input_items)))
        ELSE IF single # {} THEN FirstConsequents(single)
        ELSE {NoneRec}

\* Faulty variant: the rules.empty test at the top is missing.
find_best_recommendation_NoEmptyTest(input_items, r) ==
    IF ~r.columns THEN {KeyErrorRec}
    ELSE IF WithAntecedent(r, Range(input_items)) # {}
    THEN FirstConsequents(WithAntecedent(r, Range(input_items)))
    ELSE IF input_items # <<>> /\ WithAntecedent(r, {input_items[1]}) # {}
    THEN FirstConsequents(WithAntecedent(r, {input_items[1]}))
    ELSE {NoneRec}

\* find_best_recommendation(input_items, rules): the values the call may
\* return; indexing a frame without columns raises KeyError.
find_best_recommendation(input_items, r) ==
    IF FrameEmpty(r) THEN {NoneRec}
    ELSE IF ~r.columns THEN {KeyErrorRec}
    ELSE IF WithAntecedent(r, Range(input_items)) # {}
    THEN FirstConsequents(WithAntecedent(r, Range(input_items)))
    ELSE IF input_items # <<>> /\ WithAntecedent(r, {input_items[1]}) # {}
    THEN FirstConsequents(WithAntecedent(r, {input_items[1]}))
    ELSE {NoneRec}

\* -------------------------------------------------------------------- state
VARIABLES
    pc,                 \* the line the program is at
    caller,             \* "main", or "direct" for a caller of the functions
    df,                 \* the binary-encoded transactions
    min_confidence,     \* generate_association_rules' argument
    frequent_itemsets,  \* generate_association_rules' local
    rules,              \* generate_association_rules' local, then its caller's
    mine_log,           \* history: the apriori calls made, in order
    rule_log,           \* history: the association_rules calls made, in order
    caught,             \* history: the except clause of generate_association_rules ran
    returned,           \* history: generate_association_rules has returned
    gen_result,         \* history: the frame it returned
    user_input,         \* the line last read by input()
    input_items,        \* the list last passed to find_best_recommendation
    passed_rules,       \* the frame last passed to find_best_recommendation
    invoked,            \* whether the last line read led to a call of the resolver
    recommendation,     \* what find_best_recommendation last returned
    served              \* history: a line has been read in the query loop

vars == <<pc, caller, df, min_confidence, frequent_itemsets, rules, mine_log,
          rule_log, caught, returned, gen_result, user_input, input_items,
          passed_rules, invoked, recommendation, served>>

genVars == <<frequent_itemsets, mine_log, rule_log, caught, returned, gen_result>>
queryVars == <<user_input, input_items, passed_rules, invoked, recommendation, served>>

InitCommon ==
    /\ df = NoData
    /\ min_confidence = MIN_CONFIDENCE_PRIMARY
    /\ frequent_itemsets = NoItemsets
    /\ rules = BareFrame
    /\ mine_log = <<>>
    /\ rule_log = <<>>
    /\ caught = FALSE
    /\ returned = FALSE
    /\ gen_result = BareFrame
    /\ user_input = <<>>
    /\ input_items = <<>>
    /\ passed_rules = BareFrame
    /\ invoked = FALSE
    /\ recommendation = NoneRec
    /\ served = FALSE

\* The program started: main is about to load the dataset.
Init == pc = "main178" /\ caller = "main" /\ InitCommon

\* ------------------------------------------------- generate_association_rules
\* One apriori call at threshold t, going on at line `next`.
Mine(t, next) ==
    LET r == apriori(df, t)
    IN  /\ frequent_itemsets' = r
        /\ mine_log' = Append(mine_log, [min_support |-> t, result |-> r])
        /\ pc' = next
        /\ UNCHANGED <<caller, df, min_confidence, rules, rule_log, caught, returned,
                       gen_result>>
        /\ UNCHANGED queryVars

\* One association_rules call at threshold t, going on at line `next`, or at
\* the except clause when the call raises.
Generate(t, next) ==
    LET r == association_rules(frequent_itemsets, t)
    IN  /\ rule_log' = Append(rule_log, [min_threshold |-> t, input |-> frequent_itemsets,
                                         raised |-> r.raised, result |-> r.frame])
        /\ rules' = IF r.raised THEN rules ELSE r.frame
        /\ pc' = IF r.raised THEN "gen102" ELSE next
        /\ UNCHANGED <<caller, df, min_confidence, frequent_itemsets, mine_log, caught,
                       returned, gen_result>>
        /\ UNCHANGED queryVars

Skip(next) ==
    /\ pc' = next
    /\ UNCHANGED <<caller, df, min_confidence, rules>>
    /\ UNCHANGED genVars
    /\ UNCHANGED queryVars

\* line 71
GenMinePrimary == pc = "gen71" /\ Mine(MIN_SUPPORT_PRIMARY, "gen73")
\* lines 73-75
GenMineSecondary ==
    pc = "gen73" /\ ItemsetsEmpty(frequent_itemsets) /\ Mine(MIN_SUPPORT_SECONDARY, "gen77")
GenSkipSecondary == pc = "gen73" /\ ~ItemsetsEmpty(frequent_itemsets) /\ Skip("gen77")
\* Faulty variant: the third mining pass is not guarded by the emptiness test.
GenMineMinimum_Unguarded == pc = "gen77" /\ Mine(MIN_SUPPORT_MINIMUM, "gen84")
\* lines 77-79
GenMineMinimum ==
    pc = "gen77" /\ ItemsetsEmpty(frequent_itemsets) /\ Mine(MIN_SUPPORT_MINIMUM, "gen84")
GenSkipMinimum == pc = "gen77" /\ ~ItemsetsEmpty(frequent_itemsets) /\ Skip("gen84")
\* lines 84-86
GenRulesPrimary == pc = "gen84" /\ Generate(min_confidence, "gen88")
\* lines 88-92
GenRulesSecondary ==
    pc = "gen88" /\ FrameEmpty(rules) /\ Generate(MIN_CONFIDENCE_SECONDARY, "gen94")
GenSkipRulesSecondary == pc = "gen88" /\ ~FrameEmpty(rules) /\ Skip("gen94")
\* Faulty variant: the third rule pass is not guarded by the emptiness test.
GenRulesMinimum_Unguarded == pc = "gen94" /\ Generate(MIN_CONFIDENCE_MINIMUM, "gen100")
\* lines 94-98
GenRulesMinimum ==
    pc = "gen94" /\ FrameEmpty(rules) /\ Generate(MIN_CONFIDENCE_MINIMUM, "gen100")
GenSkipRulesMinimum == pc = "gen94" /\ ~FrameEmpty(rules) /\ Skip("gen100")

\* Where the call returns to.
ReturnTo == IF caller = "main" THEN "main192" ELSE "returned"

\* line 100: return rules
GenReturn ==
    /\ pc = "gen100"
    /\ returned' = TRUE
    /\ gen_result' = rules
    /\ pc' = ReturnTo
    /\ UNCHANGED <<caller, df, min_confidence, frequent_itemsets, rules, mine_log,
                   rule_log, caught>>
    /\ UNCHANGED queryVars

\* lines 102-104: except Exception: return pd.DataFrame()
GenExcept ==
    /\ pc = "gen102"
    /\ caught' = TRUE
    /\ rules' = BareFrame
    /\ returned' = TRUE
    /\ gen_result' = BareFrame
    /\ pc' = ReturnTo
    /\ UNCHANGED <<caller, df, min_confidence, frequent_itemsets, mine_log, rule_log>>
    /\ UNCHANGED queryVars

GenNext ==
    \/ GenMinePrimary
    \/ GenMineSecondary
    \/ GenSkipSecondary
    \/ GenMineMinimum
    \/ GenSkipMinimum
    \/ GenRulesPrimary
    \/ GenRulesSecondary
    \/ GenSkipRulesSecondary
    \/ GenRulesMinimum
    \/ GenSkipRulesMinimum
    \/ GenReturn
    \/ GenExcept

\* ----------------------------------------------------------------------- main
\* lines 178-186: the dataset is loaded
MainLoad(d) ==
    /\ pc = "main178"
    /\ df' = d
    /\ pc' = "main190"
    /\ UNCHANGED <<caller, min_confidence, rules>>
    /\ UNCHANGED genVars
    /\ UNCHANGED queryVars

\* lines 178-182: load_groceries_data returned None
MainLoadFailed ==
    /\ pc = "main178"
    /\ pc' = "exit"
    /\ UNCHANGED <<caller, df, min_confidence, rules>>
    /\ UNCHANGED genVars
    /\ UNCHANGED queryVars

\* line 190: generate_association_rules(df, min_confidence=MIN_CONFIDENCE_PRIMARY)
MainGenerate ==
    /\ pc = "main190"
    /\ min_confidence' = MIN_CONFIDENCE_PRIMARY
    /\ pc' = "gen71"
    /\ UNCHANGED <<caller, df, rules>>
    /\ UNCHANGED genVars
    /\ UNCHANGED queryVars

\* lines 192-194: if rules.empty: ... return
MainNoRules ==
    /\ pc = "main192"
    /\ FrameEmpty(rules)
    /\ pc' = "exit"
    /\ UNCHANGED <<caller, df, min_confidence, rules>>
    /\ UNCHANGED genVars
    /\ UNCHANGED queryVars

\* Faulty variant: the loop is entered whatever the rules are.
MainEnterLoop_Always ==
    /\ pc = "main192"
    /\ pc' = "main221"
    /\ UNCHANGED <<caller, df, min_confidence, rules>>
    /\ UNCHANGED genVars
    /\ UNCHANGED queryVars

\* lines 196-216: the rules are reported and the query loop is entered
MainEnterLoop ==
    /\ pc = "main192"
    /\ ~FrameEmpty(rules)
    /\ pc' = "main221"
    /\ UNCHANGED <<caller, df, min_confidence, rules>>
    /\ UNCHANGED genVars
    /\ UNCHANGED queryVars

\* line 221: input() returns the line typed
LoopRead(line) ==
    /\ pc = "main221"
    /\ user_input' = line
    /\ served' = TRUE
    /\ pc' = "main224"
    /\ UNCHANGED <<caller, df, min_confidence, rules>>
    /\ UNCHANGED genVars
    /\ UNCHANGED <<input_items, passed_rules, invoked, recommendation>>

\* The rest of the loop body leaves these alone.
LoopFrame ==
    /\ UNCHANGED <<caller, df, min_confidence, rules, user_input, served>>
    /\ UNCHANGED genVars

\* lines 221-226: .strip(), then quit, exit or q ends the loop
LoopQuit ==
    /\ pc = "main224"
    /\ Lower(Strip(user_input)) \in QuitWords
    /\ pc' = "exit"
    /\ LoopFrame
    /\ UNCHANGED <<input_items, passed_rules, invoked, recommendation>>

\* lines 229-233: no item typed
LoopNoItems ==
    /\ pc = "main224"
    /\ Lower(Strip(user_input)) \notin QuitWords
    /\ parse_input_items(Strip(user_input)) = <<>>
    /\ pc' = "main258"
    /\ LoopFrame
    /\ UNCHANGED <<input_items, passed_rules, invoked, recommendation>>

\* lines 236-242: no typed item is in the dataset
LoopNoneValid ==
    /\ pc = "main224"
    /\ Lower(Strip(user_input)) \notin QuitWords
    /\ parse_input_items(Strip(user_input)) # <<>>
    /\ ValidItems(parse_input_items(Strip(user_input)), df) = <<>>
    /\ pc' = "main258"
    /\ LoopFrame
    /\ UNCHANGED <<input_items, passed_rules, invoked, recommendation>>

\* lines 245-258: the resolver is called with the valid items; an exception
\* in it is caught at line 263 and the loop goes on
LoopRecommend ==
    /\ pc = "main224"
    /\ Lower(Strip(user_input)) \notin QuitWords
    /\ ValidItems(parse_input_items(Strip(user_input)), df) # <<>>
    /\ input_items' = ValidItems(parse_input_items(Strip(user_input)), df)
    /\ passed_rules' = rules
    /\ invoked' = TRUE
    /\ recommendation' \in find_best_recommendation(input_items', rules)
    /\ pc' = "main258"
    /\ LoopFrame

\* line 218: while True; the values of the pass that ended are dead (each is
\* assigned before it is read again) and are forgotten
LoopAgain ==
    /\ pc = "main258"
    /\ user_input' = <<>>
    /\ input_items' = <<>>
    /\ passed_rules' = BareFrame
    /\ invoked' = FALSE
    /\ recommendation' = NoneRec
    /\ pc' = "main221"
    /\ UNCHANGED <<caller, df, min_confidence, rules, served>>
    /\ UNCHANGED genVars

\* lines 260-262: KeyboardInterrupt at the prompt
LoopInterrupt ==
    /\ pc = "main221"
    /\ pc' = "exit"
    /\ UNCHANGED <<caller, df, min_confidence, rules>>
    /\ UNCHANGED genVars
    /\ UNCHANGED queryVars

Next ==
    \/ \E d \in DataSets : MainLoad(d)
    \/ MainLoadFailed
    \/ MainGenerate
    \/ GenNext
    \/ MainNoRules
    \/ MainEnterLoop
    \/ \E line \in Lines : LoopRead(line)
    \/ LoopQuit
    \/ LoopNoItems
    \/ LoopNoneValid
    \/ LoopRecommend
    \/ LoopAgain
    \/ LoopInterrupt

Spec == Init /\ [][Next]_vars

\* ------------------------------------------------- the functions called directly
\* A caller other than main: any dataset and any min_confidence, then one
\* resolver call on the frame returned.
InitDirect == pc = "call" /\ caller = "direct" /\ InitCommon

DirectGenerate(d, c) ==
    /\ pc = "call"
    /\ df' = d
    /\ min_confidence' = c
    /\ pc' = "gen71"
    /\ UNCHANGED <<caller, rules>>
    /\ UNCHANGED genVars
    /\ UNCHANGED queryVars

DirectRecommend(q) ==
    /\ pc = "returned"
    /\ input_items' = q
    /\ passed_rules' = rules
    /\ invoked' = TRUE
    /\ recommendation' \in find_best_recommendation(q, rules)
    /\ pc' = "resolved"
    /\ UNCHANGED <<caller, df, min_confidence, rules, user_input, served>>
    /\ UNCHANGED genVars

NextDirect ==
    \/ \E d \in DataSets, c \in ConfidenceArgs : DirectGenerate(d, c)
    \/ GenNext
    \/ \E q \in Queries : DirectRecommend(q)

SpecDirect == InitDirect /\ [][NextDirect]_vars

\* ------------------------------------------------------------------- claims
\* Written on the histories, not with the operators the actions guard on.
NoItemsetRows(fi) == fi.rows = {} /\ fi.uniq = 0
LastMined == mine_log[Len(mine_log)].result
LastGenerated == rule_log[Len(rule_log)]
MiningOver == pc \notin {"call", "main178", "main190", "gen71", "gen73", "gen77"}
GenerationOver == pc \notin {"call", "main178", "main190", "gen71", "gen73", "gen77",
                             "gen84", "gen88", "gen94", "gen102"}
AllMinedEmpty ==
    Len(mine_log) = 3 /\ \A k \in 1..3 : NoItemsetRows(mine_log[k].result)
\* a/b < c/d on the decimal fractions
FractionLess(x, y) == x.num * y.den < y.num * x.den

\* C1: the mining passes run at MIN_SUPPORT_PRIMARY, MIN_SUPPORT_SECONDARY,
\* MIN_SUPPORT_MINIMUM in that order, three at most; pass k+1 runs iff pass k
\* returned no itemsets; and every rule-generation call is handed the result
\* of the last pass run.
C1_SupportEscalation ==
    LET order == <<MIN_SUPPORT_PRIMARY, MIN_SUPPORT_SECONDARY, MIN_SUPPORT_MINIMUM>>
    IN  /\ Len(mine_log) <= 3
        /\ \A k \in 1..Len(mine_log) : mine_log[k].min_support = order[k]
        /\ \A k \in 1..(Len(mine_log) - 1) : NoItemsetRows(mine_log[k].result)
        /\ pc = "gen77" =>
             Len(mine_log) = (IF NoItemsetRows(mine_log[1].result) THEN 2 ELSE 1)
        /\ MiningOver =>
             /\ Len(mine_log) >= 1
             /\ Len(mine_log) < 3 => ~NoItemsetRows(LastMined)
             /\ frequent_itemsets = LastMined
        /\ \A j \in 1..Len(rule_log) : rule_log[j].input = LastMined

\* C1 witness: the first two passes found nothing, the third did, and its
\* result went to rule generation.
C1_Witness ==
    /\ pc = "returned"
    /\ Len(mine_log) = 3
    /\ ~NoItemsetRows(LastMined)
    /\ Len(rule_log) >= 1
    /\ rule_log[1].input = LastMined

\* C2: the rule passes run at min_confidence, MIN_CONFIDENCE_SECONDARY,
\* MIN_CONFIDENCE_MINIMUM in that order, three at most, all on the itemsets
\* mining ended with and with no further mining; pass k+1 runs iff pass k
\* returned no rule; the frame returned is that of the first pass with rules,
\* or has no rows.
C2_ConfidenceEscalation ==
    LET order == <<min_confidence, MIN_CONFIDENCE_SECONDARY, MIN_CONFIDENCE_MINIMUM>>
    IN  /\ Len(rule_log) <= 3
        /\ \A k \in 1..Len(rule_log) :
             /\ rule_log[k].min_threshold = order[k]
             /\ rule_log[k].input = frequent_itemsets
             /\ frequent_itemsets = LastMined
        /\ \A k \in 1..(Len(rule_log) - 1) :
             ~rule_log[k].raised /\ rule_log[k].result.rows = {}
        /\ pc = "gen94" =>
             Len(rule_log) = (IF rule_log[1].result.rows = {} THEN 2 ELSE 1)
        /\ (GenerationOver /\ ~caught) =>
             /\ Len(rule_log) >= 1
             /\ Len(rule_log) < 3 => LastGenerated.result.rows # {}
             /\ rules = LastGenerated.result
        /\ returned =>
             gen_result = (IF caught THEN BareFrame ELSE LastGenerated.result)

\* C2 witness: main's threshold kept no rule, the second threshold did, and
\* that frame was returned.
C2_Witness ==
    /\ pc = "returned"
    /\ min_confidence = MIN_CONFIDENCE_PRIMARY
    /\ Len(rule_log) = 2
    /\ rule_log[1].result.rows = {}
    /\ gen_result.rows # {}
    /\ gen_result = rule_log[2].result

\* C7: once all three mining passes have come back empty, the only rule pass
\* is the first one, control never reaches the retries at lines 88-98, and the
\* call returns, through its except clause, a frame of no rows.
C7_EmptyItemsets ==
    AllMinedEmpty =>
        /\ pc \in {"gen84", "gen102", "returned", "resolved"}
        /\ Len(rule_log) <= 1
        /\ \A k \in 1..Len(rule_log) : rule_log[k].min_threshold = min_confidence
        /\ returned => (caught /\ gen_result.rows = {} /\ Len(rule_log) = 1)

\* C7 witness: returned after three empty mining passes.
C7_Witness == pc = "returned" /\ AllMinedEmpty /\ RowCount(df) > 0 /\ caught

\* C8: the frame returned holds exactly the rules derivable from the frequent
\* itemsets whose confidence, as the exact ratio of basket counts, is at or
\* above the threshold of the last rule pass run.
C8_ThresholdExact ==
    (returned /\ ~caught) =>
        LET t == LastGenerated.min_threshold
            held == {<<x.antecedents, x.consequents>> : x \in gen_result.rows}
            due == {<<c.antecedents, c.itemsets \ c.antecedents>> :
                      c \in {x \in RuleCandidates(LastGenerated.input) :
                               CountOf(df, x.itemsets) * t.den
                                 >= t.num * CountOf(df, x.antecedents)}}
        IN  held = due

\* C9: every retry uses a threshold strictly below that of the pass before
\* it, for the supports and for the confidences.
C9_StrictlyDecreasing ==
    /\ \A k \in 1..(Len(mine_log) - 1) :
         FractionLess(mine_log[k + 1].min_support, mine_log[k].min_support)
    /\ \A k \in 1..(Len(rule_log) - 1) :
         FractionLess(rule_log[k + 1].min_threshold, rule_log[k].min_threshold)

\* The rules of the frame passed whose antecedent is the set S.
PassedWith(S) == {x \in passed_rules.rows : x.antecedents = S}
\* The item returned is in the consequent of a rule of greatest confidence in R.
FromBestOf(R) ==
    /\ recommendation.tag = "item"
    /\ \E x \in R :
         /\ recommendation.item \in x.consequents
         /\ \A y \in R : FloatGeq(x.confidence, y.confidence)

\* C3: when some rule's antecedent equals the query as a set, the call
\* returns a member of the consequent of a rule of greatest confidence among
\* the rules with that antecedent, whatever the rules of the first item are.
C3_ExactStage ==
    (pc = "resolved" /\ PassedWith(Range(input_items)) # {}) =>
        FromBestOf(PassedWith(Range(input_items)))

\* C3 witness: a two-item query with an exact rule, while a rule of the first
\* item alone has a confidence above every exact rule and another consequent.
C3_Witness ==
    /\ pc = "resolved"
    /\ Cardinality(Range(input_items)) = 2
    /\ PassedWith(Range(input_items)) # {}
    /\ \E s \in PassedWith({input_items[1]}) :
         /\ \A x \in PassedWith(Range(input_items)) :
              ~FloatGeq(x.confidence, s.confidence)
         /\ recommendation.item \notin s.consequents

\* C4: for a non-empty query that no rule's antecedent equals, the call
\* returns a member of the consequent of a rule of greatest confidence among
\* the rules whose antecedent is the first item alone, and None when there is
\* no such rule, whatever rules the other items have.
C4_FallbackStage ==
    (pc = "resolved" /\ input_items # <<>> /\ PassedWith(Range(input_items)) = {}) =>
        IF PassedWith({input_items[1]}) # {}
        THEN FromBestOf(PassedWith({input_items[1]}))
        ELSE recommendation = NoneRec

\* C4 witness: no exact rule, the first item has several rules, and one of
\* them answered.
C4_Witness ==
    /\ pc = "resolved"
    /\ Len(input_items) >= 2
    /\ PassedWith(Range(input_items)) = {}
    /\ Cardinality(PassedWith({input_items[1]})) >= 2
    /\ recommendation.tag = "item"

\* C5: a call with any query of 0 to MaxQueryLen items and any frame returns
\* one Item or None, never an error, and leaves the frame as it was.
C5_Totality ==
    pc = "resolved" =>
        /\ recommendation.tag \in {"item", "None"}
        /\ recommendation.tag = "item" => recommendation.item \in Items
        /\ recommendation.tag = "None" => recommendation = NoneRec
        /\ rules = gen_result
        /\ passed_rules = gen_result

\* C5 witness: a call with an unknown item on the frame without columns that
\* the except clause returns.
C5_Witness ==
    /\ pc = "resolved"
    /\ caught
    /\ ~passed_rules.columns
    /\ ItemX \in Range(input_items)
    /\ recommendation = NoneRec

\* C6 as stated: with the dataset loaded and an empty rule frame, main does
\* not end before a query has been read.
C6_ServesAnyway ==
    (returned /\ gen_result.rows = {} /\ pc = "exit") => served

\* C6 amended: with the dataset loaded and an empty rule frame returned (also
\* through the except clause), main goes from the test at line 192 to its end
\* and reads no query; a query is read only with a frame that has rules.
C6_EmptyRulesEndMain ==
    /\ (returned /\ gen_result.rows = {}) => (pc \in {"main192", "exit"} /\ ~served)
    /\ pc \in {"main221", "main224", "main258"} => (returned /\ rules.rows # {})
    /\ served => (returned /\ gen_result.rows # {})

\* C6 witness: main ended after the except clause returned the empty frame.
C6_Witness == pc = "exit" /\ returned /\ caught /\ ~served /\ gen_result.rows = {}

\* What the line typed asks for: the cleaned non-empty fields, the first
\* three of them, those of them that are in the dataset.
TypedItems == SelectSeq(StripLowerAll(SplitComma(Strip(user_input))), IsNonEmpty)
TypedQuery ==
    LET Known(item) == CountOf(df, {item}) > 0
        n == IF Len(TypedItems) > 3 THEN 3 ELSE Len(TypedItems)
    IN  SelectSeq(SubSeq(TypedItems, 1, n), Known)

\* C10: at the end of a pass of the query loop, the resolver was called iff
\* the line has a known item among its first three; it was called with 1 to 3
\* items, each non-empty, trimmed, lower-case and in the dataset, in the order
\* typed, and with the frame generate_association_rules returned.
C10_ValidatedQuery ==
    pc = "main258" =>
        /\ invoked <=> TypedQuery # <<>>
        /\ invoked =>
             /\ Len(input_items) \in 1..3
             /\ \A i \in 1..Len(input_items) :
                  /\ input_items[i] # <<>>
                  /\ Head(input_items[i]) # " "
                  /\ input_items[i][Len(input_items[i])] # " "
                  /\ \A j \in 1..Len(input_items[i]) :
                       input_items[i][j] \notin {"A", "B", "Q"}
                  /\ input_items[i] \in Vocabulary(df)
             /\ input_items = TypedQuery
             /\ passed_rules = gen_result
             /\ rules = gen_result
        /\ ~invoked =>
             (input_items = <<>> /\ passed_rules = BareFrame /\ recommendation = NoneRec)

\* C10 witness: four items typed, the fourth dropped, an unknown one among
\* the first three removed, the two left passed in the order typed.
C10_Witness ==
    /\ pc = "main258"
    /\ invoked
    /\ Len(TypedItems) = 4
    /\ Len(input_items) = 2
    /\ input_items[1] # input_items[2]
    /\ TypedItems[4] \in Vocabulary(df)

====
